---- MODULE Spec2Model ----
(***************************************************************************)
(* Hybrid two-tier sliding-window rate limiter                             *)
(* (src/src/rate-limit/hybrid-limiter.ts, memory-cache.ts, kv-store.ts).   *)
(*                                                                         *)
(* One HybridRateLimiter instance over one durable store.  Every           *)
(* checkRequest call is a little process whose program counter stops at    *)
(* the suspension points of the code: the lock spin (setTimeout 0), the    *)
(* await of kvStore.get, the await of kvStore.put and the await of         *)
(* `return await this._processRequest(...)` that precedes the finally      *)
(* block.  Everything between two suspension points is one atomic step,    *)
(* as it is on the single-threaded event loop.                             *)
(*                                                                         *)
(* Time is in milliseconds.  Date.now() is the variable clock.             *)
(***************************************************************************)
EXTENDS Integers, Sequences, FiniteSets, TLC

\* ------------------------------------------------------------------ bounds
\* total number of checkRequest calls issued in one behaviour
MaxCalls == 4
\* last instant of the clock grid (ms)
MaxClock == 2001
\* number of limiter instances the registry creates in one behaviour
MaxInstances == 3

\* ------------------------------------------------------------ value spaces
\* identities passed to checkRequest
Keys == {"a", "b"}
\* instants Date.now() takes: around the multiples of one second, from 1000
Instants == {t \in 1000..MaxClock : t % 1000 \in {0, 1, 999}}
\* `metadata` argument: undefined, or an object
NoMeta == "undefined"
Metas == {NoMeta, "m1"}

\* null / undefined record and result
NoRecord == [absent |-> TRUE]
NoResult == [pending |-> TRUE]

VARIABLES
    clock,          \* Date.now()
    config,         \* RateLimitConfig: windowMs, max, kvEnabled, memoryCacheSize, memoryCacheTTL
    shouldFail,     \* the durable store fails every operation (MockKVStore.shouldFail)
    cache,          \* LRUCache.cache: Map in insertion order, <<[key, value, timestamp]>>
    kv,             \* durable store content: key -> stored JSON record | NoRecord
    requestLocks,   \* HybridRateLimiter.requestLocks: keys mapped to true
    calls,          \* the checkRequest invocations, by call number
    rateLimiter,    \* index.ts `let rateLimiter`: 0 for null, else the number of the active instance
    timers,         \* instances whose setInterval cleanup timer is live
    retired,        \* instances replaced or disposed: number -> their L1 as dispose left it
    sweep,          \* the running cleanup() of the limiter: position, listed keys, now
    lastOp,         \* the last direct LRUCache / KVStore method call and what it returned
    metrics         \* InMemoryMetrics.counters: allow, deny, l1Hits

\* the state outside a checkRequest call on one limiter instance
others == <<rateLimiter, timers, retired, sweep, lastOp, metrics>>

vars == <<clock, config, shouldFail, cache, kv, requestLocks, calls, others>>

CallIds == 1..MaxCalls

\* ------------------------------------------------------------------ helpers
\* Math.ceil(x / 1000)
CeilSec(x) == -((-x) \div 1000)

\* Math.max(0, x)
Max0(x) == IF x > 0 THEN x ELSE 0

\* a key derivation that forgets the identity
generateKeyShared(userKey) == <<"rl:v1:", "shared">>

\* generateKey: `rl:v1:${userKey}`
generateKey(userKey) == <<"rl:v1:", userKey>>

RlKeys == {generateKey(k) : k \in Keys}

\* ------------------------------------------------------------- LRUCache<T>
\* position of key in the Map, 0 when absent
CacheIndex(c, key) ==
    IF \E n \in 1..Len(c) : c[n].key = key
    THEN CHOOSE n \in 1..Len(c) : c[n].key = key
    ELSE 0

\* Map.delete(key)
CacheDelete(c, key) == SelectSeq(c, LAMBDA e : e.key # key)

\* a get that already drops an entry exactly ttl old
LRUGetInclusive(c, key, now, ttl) ==
    LET n == CacheIndex(c, key) IN
    IF n = 0 THEN [cache |-> c, value |-> NoRecord]
    ELSE IF now - c[n].timestamp >= ttl
         THEN [cache |-> CacheDelete(c, key), value |-> NoRecord]
         ELSE [cache |-> Append(CacheDelete(c, key), c[n]), value |-> c[n].value]

\* LRUCache.get: null when absent; evicts and returns null when older than
\* ttl; otherwise moves the entry to the end and returns its value
LRUGet(c, key, now, ttl) ==
    LET n == CacheIndex(c, key) IN
    IF n = 0 THEN [cache |-> c, value |-> NoRecord]
    ELSE IF now - c[n].timestamp > ttl
         THEN [cache |-> CacheDelete(c, key), value |-> NoRecord]
         ELSE [cache |-> Append(CacheDelete(c, key), c[n]), value |-> c[n].value]

\* a set that tests the size before it drops the old entry of the key
LRUSetEvictFirst(c, key, value, now, maxSize) ==
    LET c1 == IF Len(c) >= maxSize /\ Len(c) > 0 THEN Tail(c) ELSE c
        c2 == CacheDelete(c1, key)
    IN Append(c2, [key |-> key, value |-> value, timestamp |-> now])

\* LRUCache.set: drop the old entry of the key, evict the first entry when
\* size >= maxSize, append the new entry stamped with Date.now()
LRUSet(c, key, value, now, maxSize) ==
    LET c1 == CacheDelete(c, key)
        c2 == IF Len(c1) >= maxSize /\ Len(c1) > 0 THEN Tail(c1) ELSE c1
    IN Append(c2, [key |-> key, value |-> value, timestamp |-> now])

\* the value object held by the cache is the object the caller mutates:
\* an assignment to a field of `record` is seen through the cache entry
CacheMutate(c, key, value) ==
    [n \in 1..Len(c) |-> IF c[n].key = key THEN [c[n] EXCEPT !.value = value] ELSE c[n]]

\* value cached for key, without the side effects of get
CacheValue(c, key) ==
    IF CacheIndex(c, key) = 0 THEN NoRecord ELSE c[CacheIndex(c, key)].value

\* a has that stamps the entry it finds with the current time
LRUHasTouch(c, key, now, ttl) ==
    LET g == LRUGet(c, key, now, ttl)
    IN [cache |-> IF g.value = NoRecord THEN g.cache
                  ELSE [n \in 1..Len(g.cache) |->
                           IF g.cache[n].key = key
                           THEN [g.cache[n] EXCEPT !.timestamp = now]
                           ELSE g.cache[n]],
        value |-> g.value # NoRecord]

\* LRUCache.has: `this.get(key) !== null`, with the side effects of get
LRUHas(c, key, now, ttl) ==
    [cache |-> LRUGet(c, key, now, ttl).cache,
     value |-> LRUGet(c, key, now, ttl).value # NoRecord]

\* LRUCache.delete: Map.delete, true when the key was present
LRUDelete(c, key) ==
    [cache |-> CacheDelete(c, key), value |-> CacheIndex(c, key) # 0]

\* LRUCache.cleanup: walk the entries in Map order, delete those older than
\* ttl, count them
RECURSIVE LRUCleanupFrom(_, _, _, _)
LRUCleanupFrom(c, n, now, ttl) ==
    IF n > Len(c) THEN [cache |-> c, cleaned |-> 0]
    ELSE IF now - c[n].timestamp > ttl
         THEN LET rest == LRUCleanupFrom(CacheDelete(c, c[n].key), n, now, ttl)
              IN [cache |-> rest.cache, cleaned |-> rest.cleaned + 1]
         ELSE LRUCleanupFrom(c, n + 1, now, ttl)

\* a sweep that stops at the first expired entry
LRUCleanupFirst(c, now, ttl) ==
    LET expired == {n \in 1..Len(c) : now - c[n].timestamp > ttl}
    IN IF expired = {} THEN [cache |-> c, cleaned |-> 0]
       ELSE LET n == CHOOSE n \in expired : \A m \in expired : n <= m
            IN [cache |-> CacheDelete(c, c[n].key), cleaned |-> 1]

LRUCleanup(c, now, ttl) == LRUCleanupFrom(c, 1, now, ttl)

\* ---------------------------------------------------------- durable store
\* JSON.stringify on put, JSON parse on get: fields and numbers survive,
\* an undefined metadata is dropped and reads back as undefined
Serialize(record) ==
    [timestamps |-> record.timestamps, tsIsList |-> record.tsIsList,
     windowMs |-> record.windowMs, maxRequests |-> record.maxRequests,
     lastAccess |-> record.lastAccess,
     metadata |-> IF record.metadata = NoMeta THEN <<>> ELSE <<record.metadata>>]

Parse(json) ==
    IF json = NoRecord THEN NoRecord
    ELSE [timestamps |-> json.timestamps, tsIsList |-> json.tsIsList,
          windowMs |-> json.windowMs, maxRequests |-> json.maxRequests,
          lastAccess |-> json.lastAccess,
          metadata |-> IF json.metadata = <<>> THEN NoMeta ELSE json.metadata[1]]

\* persistToKV: ttl in seconds handed to kvStore.put
PersistTtl(record) == CeilSec(record.windowMs + 300000)

\* ------------------------------------------------------- _processRequest
\* step 3: fresh record of a new user
NewRecord(cl) ==
    [timestamps |-> <<>>, tsIsList |-> TRUE, windowMs |-> cl.windowMs,
     maxRequests |-> cl.maxRequests, lastAccess |-> cl.now, metadata |-> cl.metadata]

\* a guard that lets a malformed timestamps field through
RepairNothing(record) == record

\* step 4: Array.isArray guard
Repair(record) ==
    IF record.tsIsList THEN record
    ELSE [record EXCEPT !.timestamps = <<>>, !.tsIsList = TRUE]

\* a step 5 that keeps the window parameters of the stored record
OverwriteMetadata(record, cl) ==
    [record EXCEPT !.metadata = IF cl.metadata # NoMeta THEN cl.metadata ELSE @]

\* step 5: overwrite the window parameters, and metadata when one is passed
Overwrite(record, cl) ==
    [record EXCEPT !.windowMs = cl.windowMs, !.maxRequests = cl.maxRequests,
                   !.metadata = IF cl.metadata # NoMeta THEN cl.metadata ELSE @]

\* a prune that keeps the timestamp exactly windowMs old
PruneInclusive(timestamps, windowStart) ==
    SelectSeq(timestamps, LAMBDA t : t >= windowStart)

\* step 6: timestamps.filter(t => t > windowStart)
Prune(timestamps, windowStart) == SelectSeq(timestamps, LAMBDA t : t > windowStart)

\* an admission test that lets one request too many through
IsAllowedInclusive(length, maxRequests) == length <= maxRequests

\* isAllowed = record.timestamps.length < maxRequests
IsAllowed(length, maxRequests) == length < maxRequests

\* retryAfterSec of steps 120-125 (pruned list, before the push)
RetryAfter(timestamps, isAllowed, windowMs, now) ==
    IF isAllowed THEN 0
    ELSE IF Len(timestamps) > 0
         THEN CeilSec(timestamps[1] + windowMs - now)
         ELSE CeilSec(windowMs)

\* resetTime: `record.timestamps[0] ? record.timestamps[0] + windowMs : now + windowMs`
ResetTime(timestamps, windowMs, now) ==
    IF Len(timestamps) > 0 /\ timestamps[1] # 0
    THEN timestamps[1] + windowMs
    ELSE now + windowMs

\* the record after steps 4-6 of the call cl
Prepared(record, cl) ==
    LET r == Overwrite(Repair(record), cl)
    IN [r EXCEPT !.timestamps = Prune(@, cl.now - cl.windowMs)]

\* step 7: result of the zero-limit early return
ZeroResult(cl, source, cfg) ==
    [allowed |-> FALSE, retryAfterSec |-> CeilSec(cl.windowMs), remaining |-> 0,
     resetTime |-> cl.now + cl.windowMs, source |-> source,
     kvEnabled |-> cfg.kvEnabled]

\* a push that does not look at the decision
AdmittedAlways(record, cl) ==
    [record EXCEPT !.timestamps = Append(@, cl.now), !.lastAccess = cl.now]

\* the record after the push and the lastAccess update
Admitted(record, cl) ==
    LET ok == IsAllowed(Len(record.timestamps), cl.maxRequests)
    IN [record EXCEPT !.timestamps = IF ok THEN Append(@, cl.now) ELSE @,
                      !.lastAccess = cl.now]

\* the result object of lines 149-158, built from the record after the push
FinalResult(cl, cfg) ==
    [allowed |-> cl.isAllowed, retryAfterSec |-> cl.retryAfterSec,
     remaining |-> Max0(cl.maxRequests - Len(cl.record.timestamps)),
     resetTime |-> ResetTime(cl.record.timestamps, cl.windowMs, cl.now),
     source |-> cl.source, kvEnabled |-> cfg.kvEnabled]

\* a checkRequest call that has not been made.  repaired: the call logged
\* 'Corrupted rate limit data detected' (line 85); putTtl: the ttl argument
\* of the kvStore.put the call has issued (line 178)
IdleCall ==
    [pc |-> "idle", key |-> "a", windowMs |-> 0, maxRequests |-> 0,
     metadata |-> NoMeta, now |-> 0, record |-> NoRecord, source |-> "new",
     isAllowed |-> FALSE, retryAfterSec |-> 0, result |-> NoResult,
     waited |-> FALSE, repaired |-> FALSE, putTtl |-> 0]

\* lines 19-24: the arguments, the key and `now = Date.now()`
Invoked(key, windowMs, maxRequests, metadata, t) ==
    [IdleCall EXCEPT !.key = key, !.windowMs = windowMs,
                     !.maxRequests = maxRequests, !.metadata = metadata,
                     !.now = t]

\* steps 4-10 of _processRequest, run without suspension at instant t once
\* the record is known: the cache and the call afterwards.
\* inL1: the record object is the one the cache entry holds.
Processed(cl0, c, record, source, inL1, t, cfg) ==
    LET rlKey == generateKey(cl0.key)
        p == Prepared(record, cl0)
        cl1 == [cl0 EXCEPT !.source = source, !.repaired = ~record.tsIsList]
    IN IF cl0.maxRequests = 0
       THEN [cache |-> IF inL1 THEN CacheMutate(c, rlKey, p) ELSE c,
             call |-> [cl1 EXCEPT !.pc = "ret", !.record = p,
                                  !.result = ZeroResult(cl1, source, cfg)]]
       ELSE LET ok == IsAllowed(Len(p.timestamps), cl0.maxRequests)
                r == Admitted(p, cl0)
                cl2 == [cl1 EXCEPT !.record = r, !.isAllowed = ok,
                          !.retryAfterSec =
                              RetryAfter(p.timestamps, ok, cl0.windowMs, cl0.now)]
            IN [cache |-> LRUSet(c, rlKey, r, t, cfg.memoryCacheSize),
                call |-> IF cfg.kvEnabled
                         THEN [cl2 EXCEPT !.pc = "kvput", !.putTtl = PersistTtl(r)]
                         ELSE [cl2 EXCEPT !.pc = "ret",
                                          !.result = FinalResult(cl2, cfg)]]

\* lines 49-81 up to the first await: look the key up in L1, then either go
\* on with the record found, or suspend on kvStore.get, or start from a new
\* record
Entered(cl, c, t, cfg) ==
    LET rlKey == generateKey(cl.key)
        g == LRUGet(c, rlKey, t, cfg.memoryCacheTTL)
    IN IF g.value # NoRecord
       THEN Processed(cl, g.cache, g.value, "cache", TRUE, t, cfg)
       ELSE IF cfg.kvEnabled
            THEN [cache |-> g.cache, call |-> [cl EXCEPT !.pc = "kvget"]]
            ELSE Processed(cl, g.cache, NewRecord(cl), "new", FALSE, t, cfg)

\* a loaded record that is processed without `source = 'kv'`
ContinuedNew(cl, c, record, t, cfg) ==
    IF record # NoRecord
    THEN Processed(cl, LRUSet(c, generateKey(cl.key), record, t, cfg.memoryCacheSize),
                   record, "new", TRUE, t, cfg)
    ELSE Processed(cl, c, NewRecord(cl), "new", FALSE, t, cfg)

\* lines 61-81: a stored record is put into L1 and processed; without a
\* record the call starts from a new one
Continued(cl, c, record, t, cfg) ==
    IF record # NoRecord
    THEN Processed(cl, LRUSet(c, generateKey(cl.key), record, t, cfg.memoryCacheSize),
                   record, "kv", TRUE, t, cfg)
    ELSE Processed(cl, c, NewRecord(cl), "new", FALSE, t, cfg)

\* a kvStore.get whose failure is not caught: the call rejects
LoadedUncaught(cl, c, json, failed, t, cfg) ==
    IF failed
    THEN [cache |-> c, call |-> [cl EXCEPT !.pc = "threw"]]
    ELSE Continued(cl, c, Parse(json), t, cfg)

\* lines 57-70 after the await: the try/catch around kvStore.get leaves
\* record null when the store fails
Loaded(cl, c, json, failed, t, cfg) ==
    Continued(cl, c, IF failed THEN NoRecord ELSE Parse(json), t, cfg)

\* _processRequest entered without requestLocks.set
EnterUnlocked(i, cl) ==
    LET e == Entered(cl, cache, clock, config)
    IN /\ requestLocks' = requestLocks
       /\ cache' = e.cache
       /\ calls' = [calls EXCEPT ![i] = e.call]

\* lines 31-38: take the lock and run _processRequest to its first await
Enter(i, cl) ==
    LET e == Entered(cl, cache, clock, config)
    IN /\ requestLocks' = requestLocks \cup {generateKey(cl.key)}
       /\ cache' = e.cache
       /\ calls' = [calls EXCEPT ![i] = e.call]

\* a lock test that sees the flag of any key
LockHeldAny(rlKey) == requestLocks # {}

\* a lock test that never sees the flag
LockHeldNever(rlKey) == FALSE

\* the per-key lock test of line 28
LockHeld(rlKey) == rlKey \in requestLocks

\* checkRequest is invoked: now is captured, then the lock is tested
Invoke(i, key, windowMs, maxRequests, metadata) ==
    /\ calls[i].pc = "idle"
    /\ \A j \in CallIds : j < i => calls[j].pc # "idle"
    /\ LET cl == Invoked(key, windowMs, maxRequests, metadata, clock)
       IN IF LockHeld(generateKey(key))
          THEN /\ calls' = [calls EXCEPT ![i] =
                               [cl EXCEPT !.pc = "spin", !.waited = TRUE]]
               /\ UNCHANGED <<cache, requestLocks>>
          ELSE Enter(i, cl)
    /\ UNCHANGED <<clock, config, shouldFail, kv>>
    /\ UNCHANGED others

\* the timer of the spin fires and the lock is found free
Spin(i) ==
    /\ calls[i].pc = "spin"
    /\ ~LockHeld(generateKey(calls[i].key))
    /\ Enter(i, calls[i])
    /\ UNCHANGED <<clock, config, shouldFail, kv>>
    /\ UNCHANGED others

\* kvStore.get settles: the stored record or, on failure, nothing
KvGetReturn(i) ==
    /\ calls[i].pc = "kvget"
    /\ LET l == Loaded(calls[i], cache, kv[generateKey(calls[i].key)],
                       shouldFail, clock, config)
       IN /\ cache' = l.cache
          /\ calls' = [calls EXCEPT ![i] = l.call]
    /\ UNCHANGED <<clock, config, shouldFail, kv, requestLocks>>
    /\ UNCHANGED others

\* a put that lands on every rate-limit key of the store
KvPutReturnAll(i) ==
    /\ calls[i].pc = "kvput"
    /\ LET cl == calls[i]
       IN /\ kv' = IF shouldFail THEN kv
                   ELSE [k \in DOMAIN kv |-> Serialize(cl.record)]
          /\ calls' = [calls EXCEPT ![i] =
                          [cl EXCEPT !.pc = "ret", !.result = FinalResult(cl, config)]]
    /\ UNCHANGED <<clock, config, shouldFail, cache, requestLocks>>
    /\ UNCHANGED others

\* kvStore.put settles: the record is stored unless the store failed
KvPutReturn(i) ==
    /\ calls[i].pc = "kvput"
    /\ LET cl == calls[i]
           rlKey == generateKey(cl.key)
       IN /\ kv' = IF shouldFail THEN kv
                   ELSE [kv EXCEPT ![rlKey] = Serialize(cl.record)]
          /\ calls' = [calls EXCEPT ![i] =
                          [cl EXCEPT !.pc = "ret", !.result = FinalResult(cl, config)]]
    /\ UNCHANGED <<clock, config, shouldFail, cache, requestLocks>>
    /\ UNCHANGED others

\* finally: requestLocks.delete(rlKey); the promise resolves
Return(i) ==
    /\ calls[i].pc = "ret"
    /\ requestLocks' = requestLocks \ {generateKey(calls[i].key)}
    /\ calls' = [calls EXCEPT ![i].pc = "done"]
    /\ UNCHANGED <<clock, config, shouldFail, cache, kv>>
    /\ UNCHANGED others

\* the caller drops the settled promise; the slot serves the next call
Forget(i) ==
    /\ calls[i].pc = "done"
    /\ calls' = [calls EXCEPT ![i] = IdleCall]
    /\ UNCHANGED <<clock, config, shouldFail, cache, kv, requestLocks>>
    /\ UNCHANGED others

\* time passes
Tick ==
    /\ \E t \in Instants : t > clock /\ clock' = t
    /\ UNCHANGED <<config, shouldFail, cache, kv, requestLocks, calls>>
    /\ UNCHANGED others

\* clearMemoryCache()
ClearMemoryCache ==
    /\ cache # <<>>
    /\ cache' = <<>>
    /\ UNCHANGED <<clock, config, shouldFail, kv, requestLocks, calls>>
    /\ UNCHANGED others

TypeOK ==
    /\ clock \in Instants
    /\ requestLocks \subseteq RlKeys
    /\ \A i \in CallIds :
          calls[i].pc \in {"idle", "spin", "kvget", "kvput", "ret", "done", "threw",
                            "notInitialized"}

\* -------------------------------------------------------- configurations
\* defaults of the LRUCache constructor
DefaultMaxSize == 1000
DefaultTTL == 300000

\* window lengths (ms) and limits the callers pass
Windows == {1000, 2000}
Limits == {1, 2}

\* no cleanup() is running
IdleSweep == [pc |-> "idle"]

\* no direct method call has been made
NoOp == [op |-> "none"]

\* the counters of a fresh InMemoryMetrics: a missing map entry reads as 0
NoMetrics == [allow |-> 0, deny |-> 0, l1Hits |-> 0]

InitWith(configs, failing) ==
    /\ clock = 1000
    /\ config \in configs
    /\ shouldFail \in failing
    /\ cache = <<>>
    /\ kv = [k \in RlKeys |-> NoRecord]
    /\ requestLocks = {}
    /\ calls = [i \in CallIds |-> IdleCall]
    /\ rateLimiter = 0
    /\ timers = {}
    /\ retired = <<>>
    /\ sweep = IdleSweep
    /\ lastOp = NoOp
    /\ metrics = NoMetrics

\* ------------------------------------------------------------------------
\* Spec: concurrent checkRequest calls for one key with the configured
\* policy (the handler passes cfg.windowMs and cfg.max on every request);
\* the clock advances between and during the calls.
Configs ==
    [kvEnabled : BOOLEAN, memoryCacheSize : {DefaultMaxSize},
     memoryCacheTTL : {DefaultTTL}, windowMs : Windows, max : Limits]

Init == InitWith(Configs, BOOLEAN)

Next ==
    \/ \E i \in CallIds : Invoke(i, "a", config.windowMs, config.max, NoMeta)
    \/ \E i \in CallIds : Spin(i)
    \/ \E i \in CallIds : KvGetReturn(i)
    \/ \E i \in CallIds : KvPutReturn(i)
    \/ \E i \in CallIds : Return(i)
    \/ Tick

Spec == Init /\ [][Next]_vars

\* ---------------------------------------------------------------- history
Started == {i \in CallIds : calls[i].pc # "idle"}
Resolved == {i \in CallIds : calls[i].result # NoResult}
Allowed == {i \in Resolved : calls[i].result.allowed}
Denied == {i \in Resolved : ~calls[i].result.allowed}

\* all calls issued so far captured the same `now`
SameNow == \A i, j \in Started : calls[i].now = calls[j].now

\* C1: when the calls for a key are started together (same now, same
\* windowMs and maxRequests >= 1), then in every interleaving of the lock
\* spin and of the durable get and put at most maxRequests of them are
\* allowed, and every call that returns is either allowed or denied.
C1_ConcurrentBound ==
    SameNow =>
        /\ Cardinality(Allowed) <= config.max
        /\ \A i \in Resolved : calls[i].result.allowed \in BOOLEAN

\* three calls of one burst have returned, one of them after spinning on the
\* lock: the quota is used up and the rest is denied
C1_Witness ==
    /\ SameNow
    /\ Cardinality(Resolved) >= 3
    /\ \E i \in Resolved : calls[i].waited
    /\ Cardinality(Allowed) = config.max
    /\ Denied # {}

\* C2: with a healthy store, no interval of length windowMs contains more
\* than maxRequests allowed calls, each counted at the now it captured.
C2_SlidingWindowBound ==
    ~shouldFail =>
        \A i \in Allowed :
            Cardinality({j \in Allowed :
                            /\ calls[i].now <= calls[j].now
                            /\ calls[j].now < calls[i].now + config.windowMs})
                <= config.max

\* smallest element of a non-empty sequence of numbers
Oldest(timestamps) ==
    CHOOSE t \in {timestamps[n] : n \in 1..Len(timestamps)} :
        \A n \in 1..Len(timestamps) : t <= timestamps[n]

\* C10: retryAfterSec is 0 on an allowed result; on a denied result it is
\* positive, at most ceil(windowMs/1000), and equal to
\* ceil((oldest retained timestamp + windowMs - now)/1000).
C10_RetryAfterBounds ==
    \A i \in Resolved :
        LET cl == calls[i] IN
        /\ cl.result.allowed => cl.result.retryAfterSec = 0
        /\ ~cl.result.allowed =>
              /\ 0 < cl.result.retryAfterSec
              /\ cl.result.retryAfterSec <= CeilSec(cl.windowMs)
              /\ Len(cl.record.timestamps) > 0
              /\ cl.result.retryAfterSec =
                    CeilSec(Oldest(cl.record.timestamps) + cl.windowMs - cl.now)
\* ------------------------------------------------------------------------
\* SpecSeq: the same calls issued one after the other, each awaited before
\* the next is made (the clock still advances between and during them).
Quiescent == \A i \in CallIds : calls[i].pc \in {"idle", "done"}

InvokeSeq(i) ==
    /\ Quiescent
    /\ Invoke(i, "a", config.windowMs, config.max, NoMeta)

NextSeq ==
    \/ \E i \in CallIds : InvokeSeq(i)
    \/ \E i \in CallIds : KvGetReturn(i)
    \/ \E i \in CallIds : KvPutReturn(i)
    \/ \E i \in CallIds : Return(i)
    \/ Tick

SpecSeq == Init /\ [][NextSeq]_vars

\* call i was allowed and every call between i and j was denied
LastAllowedBefore(i, j) ==
    /\ i < j
    /\ i \in Allowed
    /\ \A m \in CallIds : (i < m /\ m < j) => m \in Denied

\* C3: with maxRequests = 1, after a call allowed at time t the next call
\* made exactly windowMs later is allowed and one made windowMs - 1 later
\* is denied.
C3_StrictBoundary ==
    config.max = 1 =>
        \A i, j \in Resolved :
            LastAllowedBefore(i, j) =>
                /\ calls[j].now = calls[i].now + config.windowMs
                      => calls[j].result.allowed
                /\ calls[j].now = calls[i].now + config.windowMs - 1
                      => ~calls[j].result.allowed

\* allowed at t, denied at t + windowMs - 1, allowed at t + windowMs
C3_Witness ==
    /\ config.max = 1
    /\ {1, 2, 3} \subseteq Resolved
    /\ calls[2].now = calls[1].now + config.windowMs - 1
    /\ calls[3].now = calls[1].now + config.windowMs
    /\ calls[1].result.allowed
    /\ ~calls[2].result.allowed
    /\ calls[3].result.allowed

\* C9: for a fresh key, in a run of sequential calls made without clock
\* advance the i-th call is allowed with remaining = maxRequests - i while
\* i <= maxRequests and denied with remaining = 0 after that; a call made
\* more than windowMs after the last allowed call is allowed with
\* remaining = maxRequests - 1.
C9_SequentialQuota ==
    \A j \in Resolved :
        LET r == calls[j].result IN
        /\ (\A i \in 1..j : calls[i].now = calls[1].now) =>
              /\ j <= config.max => r.allowed /\ r.remaining = config.max - j
              /\ j > config.max => ~r.allowed /\ r.remaining = 0
        /\ (/\ \E i \in 1..(j - 1) : i \in Allowed
            /\ \A i \in 1..(j - 1) :
                  i \in Allowed => calls[j].now - calls[i].now > config.windowMs)
              => r.allowed /\ r.remaining = config.max - 1

\* quota of two used up, third call denied, fourth after the window allowed
C9_Witness ==
    /\ config.max = 2
    /\ Resolved = CallIds
    /\ calls[3].now = calls[1].now
    /\ ~calls[3].result.allowed
    /\ calls[4].now - calls[2].now > config.windowMs
    /\ calls[4].result.allowed
    /\ calls[4].result.remaining = 1

\* a limiter with kvEnabled = false and otherwise the same configuration
MemoryOnly == [config EXCEPT !.kvEnabled = FALSE]

\* the memory-only limiter after it served, in order and each at the instant
\* it was made, those of the calls 1..n that are for a key in K: its cache
\* and the last call it served
RECURSIVE ServedMemoryOnly(_, _)
ServedMemoryOnly(n, K) ==
    IF n = 0 THEN [cache |-> <<>>, call |-> IdleCall]
    ELSE LET before == ServedMemoryOnly(n - 1, K)
             cl == calls[n]
         IN IF cl.pc = "idle" \/ cl.key \notin K THEN before
            ELSE Entered(Invoked(cl.key, cl.windowMs, cl.maxRequests,
                                 cl.metadata, cl.now),
                         before.cache, cl.now, MemoryOnly)

\* what the memory-only limiter answers to call n
MemoryOnlyResult(n, K) == ServedMemoryOnly(n, K).call.result

\* allowed calls before j that lie in the window of call j
AllowedInWindow(j) ==
    {i \in Allowed : i < j /\ calls[i].now > calls[j].now - calls[j].windowMs}

\* C5: when every operation of the durable store fails, no call rejects,
\* every decision equals the one of a limiter with kvEnabled = false given
\* the same calls at the same times, and a call is denied once maxRequests
\* earlier calls were allowed within its window.
C5_FailureIsMemoryOnly ==
    (config.kvEnabled /\ shouldFail) =>
        /\ \A i \in CallIds : calls[i].pc # "threw"
        /\ \A j \in Resolved :
              /\ calls[j].result.allowed = MemoryOnlyResult(j, Keys).allowed
              /\ Cardinality(AllowedInWindow(j)) >= config.max
                    => ~calls[j].result.allowed

\* over a failing store the quota was used up, a call was denied, and after
\* the window a call is allowed again
C5_Witness ==
    /\ config.kvEnabled /\ shouldFail
    /\ Resolved = CallIds
    /\ \E j \in Denied : Cardinality(AllowedInWindow(j)) >= config.max
    /\ \E j \in Allowed : j > 1 /\ \E i \in Denied : i < j
    /\ kv = [k \in RlKeys |-> NoRecord]
\* ------------------------------------------------------------------------
\* SpecPolicy: one caller issues call after call for one key, each awaited,
\* with window, limit (0 included) and metadata varying from call to call,
\* over a healthy store; the L1 cache may be short lived and may be cleared
\* between and during calls.
PolicyLimits == {0, 1, 2}

ConfigsPolicy ==
    [kvEnabled : BOOLEAN, memoryCacheSize : {DefaultMaxSize},
     memoryCacheTTL : {1000, DefaultTTL}, windowMs : {1000}, max : {1}]

InitPolicy == InitWith(ConfigsPolicy, {FALSE})

InvokePolicy ==
    \E windowMs \in Windows, maxRequests \in PolicyLimits, metadata \in Metas :
        Invoke(1, "a", windowMs, maxRequests, metadata)

NextPolicy ==
    \/ InvokePolicy
    \/ KvGetReturn(1)
    \/ KvPutReturn(1)
    \/ Return(1)
    \/ Forget(1)
    \/ ClearMemoryCache
    \/ Tick

SpecPolicy == InitPolicy /\ [][NextPolicy]_vars

\* the step in which call 1 runs steps 4-10 of _processRequest
Processes == calls[1].pc \in {"idle", "kvget"} /\ calls'[1].pc \in {"kvput", "ret"}

\* the timestamps a store holds for the key, <<>> when it holds no record
StoredTimestamps(record) == IF record = NoRecord THEN <<>> ELSE record.timestamps

\* C4: a call with maxRequests = 0 is denied with retryAfterSec =
\* ceil(windowMs/1000) and remaining = 0 whatever the key's state, and the
\* timestamps held for the key in L1 and in L2 are the same after the call
\* as before it.
C4_ZeroLimitFrame ==
    [][(Processes /\ calls'[1].maxRequests = 0) =>
          LET cl == calls'[1]
              rlKey == generateKey(cl.key)
              before == CacheValue(cache, rlKey)
              after == CacheValue(cache', rlKey)
          IN /\ ~cl.result.allowed
             /\ cl.result.retryAfterSec = CeilSec(cl.windowMs)
             /\ cl.result.remaining = 0
             /\ kv'[rlKey] = kv[rlKey]
             /\ before # NoRecord =>
                   StoredTimestamps(after) = StoredTimestamps(before)
             /\ before = NoRecord =>
                   StoredTimestamps(after) = StoredTimestamps(Parse(kv[rlKey]))
      ]_vars

\* the fields a reload has to reproduce
SameFields(r1, r2) ==
    /\ r1 # NoRecord /\ r2 # NoRecord
    /\ r1.timestamps = r2.timestamps
    /\ r1.windowMs = r2.windowMs
    /\ r1.maxRequests = r2.maxRequests
    /\ r1.metadata = r2.metadata

\* C6: with the durable tier enabled and healthy, whenever the L1 entry of
\* the key is lost between two calls (cleared, or expired at the lookup of
\* the next call), L2 holds a record with the same timestamps, windowMs,
\* maxRequests and metadata as the lost entry, and the call that then reads
\* L2 continues from that record and reports source = kv.
C6_DurableRoundTrip ==
    [][config.kvEnabled =>
          LET rlKey == generateKey("a")
              before == CacheValue(cache, rlKey)
              after == CacheValue(cache', rlKey)
          IN /\ (/\ calls[1].pc \in {"idle", "done"}
                 /\ before # NoRecord
                 /\ after = NoRecord)
                   => SameFields(Parse(kv[rlKey]), before)
             /\ (/\ calls[1].pc = "kvget"
                 /\ calls'[1].pc # "kvget"
                 /\ kv[rlKey] # NoRecord)
                   => calls'[1].source = "kv"
      ]_vars

\* ------------------------------------------------------------------------
\* SpecCorrupt: one caller issues awaited calls for one key with the
\* configured policy over a healthy durable store in which, at any moment,
\* the key's record may be replaced by a malformed one; L1 may be cleared.
ConfigsCorrupt ==
    [kvEnabled : {TRUE}, memoryCacheSize : {DefaultMaxSize},
     memoryCacheTTL : {DefaultTTL}, windowMs : Windows, max : Limits]

InitCorrupt == InitWith(ConfigsCorrupt, {FALSE})

\* a stored record whose timestamps field is not a list (`timestamps: null`)
CorruptRecord ==
    [timestamps |-> <<>>, tsIsList |-> FALSE, windowMs |-> config.windowMs,
     maxRequests |-> config.max, lastAccess |-> clock, metadata |-> NoMeta]

\* kvStore.put of a malformed record, as the corruption tests do
PutCorrupt ==
    /\ IF kv[generateKey("a")] = NoRecord THEN TRUE
       ELSE kv[generateKey("a")].tsIsList
    /\ kv' = [kv EXCEPT ![generateKey("a")] = Serialize(CorruptRecord)]
    /\ UNCHANGED <<clock, config, shouldFail, cache, requestLocks, calls>>
    /\ UNCHANGED others

NextCorrupt ==
    \/ Invoke(1, "a", config.windowMs, config.max, NoMeta)
    \/ KvGetReturn(1)
    \/ KvPutReturn(1)
    \/ Return(1)
    \/ Forget(1)
    \/ PutCorrupt
    \/ ClearMemoryCache
    \/ Tick

SpecCorrupt == InitCorrupt /\ [][NextCorrupt]_vars

\* C7: a call (maxRequests >= 1) that fetches from the durable store a
\* record whose timestamps are not a list does not reject: it continues
\* from empty timestamps, so it is allowed with remaining = maxRequests - 1,
\* and the repaired record (a list holding this call's timestamp) is the one
\* written to L1 and then to L2.
C7_CorruptRecordRepaired ==
    [][LET rlKey == generateKey("a")
           cl == calls'[1]
       IN /\ (~calls[1].repaired /\ cl.repaired) =>
                /\ cl.pc = "kvput"
                /\ cl.source = "kv"
                /\ cl.record.tsIsList
                /\ cl.record.timestamps = <<cl.now>>
                /\ CacheValue(cache', rlKey) = cl.record
          /\ (calls[1].repaired /\ calls[1].pc = "kvput" /\ cl.pc # "kvput") =>
                /\ cl.pc = "ret"
                /\ cl.result.allowed
                /\ cl.result.remaining = cl.maxRequests - 1
                /\ kv'[rlKey] = Serialize(calls[1].record)
                /\ kv'[rlKey].tsIsList
      ]_vars

\* a call that found the malformed record has returned allowed, and both
\* tiers hold the repaired record
C7_Witness ==
    /\ calls[1].pc = "done"
    /\ calls[1].repaired
    /\ calls[1].result.allowed
    /\ calls[1].result.remaining = config.max - 1
    /\ CacheValue(cache, generateKey("a")) = calls[1].record
    /\ kv[generateKey("a")] = Serialize(calls[1].record)
    /\ calls[1].record.tsIsList

\* ------------------------------------------------------------------------
\* SpecKeys: calls for two identities with the configured policy over a
\* healthy store.  The calls of one identity are awaited one after the
\* other; calls of different identities overlap freely; the identity that
\* calls first is named "a".  L1 holds either every key or a single entry,
\* so that a set for one key evicts the other.
ConfigsKeys ==
    [kvEnabled : BOOLEAN, memoryCacheSize : {1, DefaultMaxSize},
     memoryCacheTTL : {DefaultTTL}, windowMs : {1000}, max : Limits]

InitKeys == InitWith(ConfigsKeys, {FALSE})

InvokeKeys(i) ==
    \E key \in Keys :
        /\ key = "a" \/ calls[1].pc # "idle"
        /\ \A j \in CallIds : calls[j].key = key => calls[j].pc \in {"idle", "done"}
        /\ Invoke(i, key, config.windowMs, config.max, NoMeta)

NextKeys ==
    \/ \E i \in CallIds : InvokeKeys(i)
    \/ \E i \in CallIds : KvGetReturn(i)
    \/ \E i \in CallIds : KvPutReturn(i)
    \/ \E i \in CallIds : Return(i)
    \/ Tick

SpecKeys == InitKeys /\ [][NextKeys]_vars

\* every result is the one a limiter serving that identity alone returns
AnsweredAsAlone ==
    \A j \in Resolved :
        LET alone == MemoryOnlyResult(j, {calls[j].key})
        IN /\ calls[j].result.allowed = alone.allowed
           /\ calls[j].result.remaining = alone.remaining

C38_NoContention ==
    \A i \in CallIds : calls[i].pc # "spin" /\ ~calls[i].waited

\* a call for each key is suspended inside _processRequest, each holding the
\* lock of its own key
C38_Witness ==
    /\ requestLocks = RlKeys
    /\ \E i, j \in CallIds :
          /\ calls[i].key = "a" /\ calls[j].key = "b"
          /\ calls[i].pc \in {"kvget", "kvput"}
          /\ calls[j].pc \in {"kvget", "kvput"}

\* ------------------------------------------------------------------------
\* SpecRegistry: the module-level registry of index.ts.  The variables
\* cache, requestLocks and config are those of the instance rateLimiter
\* points to; an instance the registry let go of is kept in `retired` as
\* dispose() left it.  One caller issues awaited checkRateLimit calls;
\* initializeRateLimiter and disposeRateLimiter are called between them.
ConfigsRegistry ==
    [kvEnabled : BOOLEAN, memoryCacheSize : {DefaultMaxSize},
     memoryCacheTTL : {DefaultTTL}, windowMs : {1000}, max : {1},
     cleanupInterval : {0, 60000}]

InitRegistry == InitWith(ConfigsRegistry, {FALSE})

\* an instance that is let go of without dispose()
DisposedNot(instance) == instance

\* HybridRateLimiter.dispose(): clearInterval(cleanupTimer), memoryCache.clear()
Disposed(instance) == [instance EXCEPT !.cleanupTimer = FALSE, !.cache = <<>>]

\* the active instance as an object
ActiveInstance == [cleanupTimer |-> rateLimiter \in timers, cache |-> cache]

\* a registry test that takes any value for an instance
ActiveAlways == TRUE

\* `if (rateLimiter)` / `if (!rateLimiter)`
Active == rateLimiter # 0

\* initializeRateLimiter(kvNamespace, config): dispose the active instance
\* if there is one, then construct and install a new one; the constructor
\* schedules the cleanup timer when cleanupInterval > 0
InitializeRateLimiter ==
    /\ calls[1].pc = "idle"
    /\ Len(retired) + (IF Active THEN 2 ELSE 1) <= MaxInstances
    /\ LET old == Disposed(ActiveInstance)
           kept == IF Active /\ old.cleanupTimer THEN timers ELSE timers \ {rateLimiter}
           new == Len(retired) + (IF Active THEN 2 ELSE 1)
       IN /\ retired' = IF Active THEN Append(retired, old) ELSE retired
          /\ rateLimiter' = new
          /\ timers' = IF config.cleanupInterval > 0 THEN kept \cup {new} ELSE kept
    /\ cache' = <<>>
    /\ requestLocks' = {}
    /\ lastOp' = [op |-> "initializeRateLimiter"]
    /\ UNCHANGED <<clock, config, shouldFail, kv, calls, sweep, metrics>>

\* disposeRateLimiter(): dispose and forget the active instance, if any
DisposeRateLimiter ==
    /\ calls[1].pc = "idle"
    /\ IF Active
       THEN LET old == Disposed(ActiveInstance)
            IN /\ retired' = Append(retired, old)
               /\ timers' = IF old.cleanupTimer THEN timers ELSE timers \ {rateLimiter}
               /\ cache' = old.cache
               /\ rateLimiter' = 0
       ELSE UNCHANGED <<retired, timers, cache, rateLimiter>>
    /\ lastOp' = [op |-> "disposeRateLimiter"]
    /\ UNCHANGED <<clock, config, shouldFail, kv, requestLocks, calls, sweep, metrics>>

\* checkRateLimit(key, windowMs, maxRequests): throw when no limiter is
\* installed, else await rateLimiter.checkRequest(...)
CheckRateLimit ==
    IF Active
    THEN Invoke(1, "a", config.windowMs, config.max, NoMeta)
    ELSE /\ calls[1].pc = "idle"
         /\ calls' = [calls EXCEPT ![1] =
                         [Invoked("a", config.windowMs, config.max, NoMeta, clock)
                            EXCEPT !.pc = "notInitialized"]]
         /\ UNCHANGED <<clock, config, shouldFail, cache, kv, requestLocks, others>>

\* the caller has caught the configuration error
Caught ==
    /\ calls[1].pc = "notInitialized"
    /\ calls' = [calls EXCEPT ![1] = IdleCall]
    /\ UNCHANGED <<clock, config, shouldFail, cache, kv, requestLocks, others>>

NextRegistry ==
    \/ InitializeRateLimiter
    \/ DisposeRateLimiter
    \/ CheckRateLimit
    \/ Caught
    \/ KvGetReturn(1)
    \/ KvPutReturn(1)
    \/ Return(1)
    \/ Forget(1)
    \/ Tick

SpecRegistry == InitRegistry /\ [][NextRegistry]_vars

\* C11: a checkRateLimit call made while no limiter is installed fails at
\* once with the configuration error and leaves L1, the locks and the store
\* as they were; one made while a limiter is installed never fails so and
\* enters checkRequest of that instance.
C11_RegistryFailFast ==
    [][(calls[1].pc = "idle" /\ calls'[1].pc # "idle") =>
          IF rateLimiter = 0
          THEN /\ calls'[1].pc = "notInitialized"
               /\ calls'[1].result = NoResult
               /\ cache' = cache /\ kv' = kv /\ requestLocks' = requestLocks
          ELSE /\ calls'[1].pc \in {"kvget", "kvput", "ret"}
               /\ generateKey(calls'[1].key) \in requestLocks'
      ]_vars

\* after a limiter served a call and was disposed, a call fails with the
\* configuration error
C11_Witness ==
    /\ rateLimiter = 0
    /\ Len(retired) > 0
    /\ calls[1].pc = "notInitialized"
    /\ kv[generateKey("a")] # NoRecord

\* C12: at most one instance is live: no instance other than the one the
\* registry points to has a running cleanup timer, and every instance the
\* registry let go of (replaced by initializeRateLimiter or dropped by
\* disposeRateLimiter) had its timer cancelled and its L1 cleared;
\* initializeRateLimiter installs a new instance; disposeRateLimiter leaves
\* no instance installed, and with none installed it changes nothing.
C12_RegistryLifecycle ==
    [][/\ timers' \subseteq {rateLimiter'} \ {0}
       /\ \A n \in 1..Len(retired') :
             ~retired'[n].cleanupTimer /\ retired'[n].cache = <<>>
       /\ (rateLimiter' # rateLimiter /\ rateLimiter' # 0) =>
             /\ lastOp'.op = "initializeRateLimiter"
             /\ rateLimiter' = Len(retired') + 1
             /\ rateLimiter # 0 => Len(retired') = Len(retired) + 1
             /\ cache' = <<>>
       /\ (lastOp' # lastOp /\ lastOp'.op = "disposeRateLimiter") =>
             /\ rateLimiter' = 0
             /\ rateLimiter = 0 =>
                   UNCHANGED <<retired, timers, cache, kv, requestLocks, calls>>
      ]_vars

\* a second initializeRateLimiter replaced an instance that had a running
\* timer and a populated L1, and later the registry was disposed twice
C12_Witness ==
    /\ Len(retired) >= 2
    /\ rateLimiter = 0
    /\ lastOp.op = "disposeRateLimiter"
    /\ config.cleanupInterval > 0
    /\ kv[generateKey("a")] # NoRecord

\* ------------------------------------------------------------------------
\* SpecStore: a caller uses the four methods of CloudflareKVStore directly;
\* each time, the backend namespace either serves the operation or rejects
\* it.
Prefixes == {"rl:v1:", "test:"}

\* the identities in the order in which the backend lists their keys
KeyList == <<"a", "b">>

\* a store with more keys under the rate-limit prefix than one list call
\* returns: the identities "1", "2", ... of its keys
ManyKeys == 101

ManyIds == [n \in 1..ManyKeys |-> ToString(n)]

\* a key of another namespace in the same store
OutsideName == <<"test:", "x">>

\* every key name, in the order in which the backend lists them
AllNames ==
    [n \in 1..Len(KeyList) |-> generateKey(KeyList[n])] \o
    [n \in 1..ManyKeys |-> generateKey(ManyIds[n])] \o <<OutsideName>>

\* the record a caller puts at the current instant
PutRecord ==
    [timestamps |-> <<clock>>, tsIsList |-> TRUE, windowMs |-> config.windowMs,
     maxRequests |-> config.max, lastAccess |-> clock, metadata |-> NoMeta]

\* kv.list({prefix, limit}) of the backend: names of the stored keys that
\* start with the prefix, at most limit of them
BackendList(store, prefix, limit) ==
    LET all == SelectSeq(AllNames, LAMBDA k : k \in DOMAIN store)
        found == SelectSeq(all, LAMBDA k : store[k] # NoRecord /\ k[1] = prefix)
    IN IF Len(found) > limit THEN SubSeq(found, 1, limit) ELSE found

\* a get that lets the rejection of the backend through
CloudflareGetUncaught(store, key, failed) ==
    [threw |-> failed, value |-> IF failed THEN NoRecord ELSE Parse(store[key])]

\* CloudflareKVStore.get: the parsed value, or null on a miss or a failure
CloudflareGet(store, key, failed) ==
    [threw |-> FALSE, value |-> IF failed THEN NoRecord ELSE Parse(store[key])]

\* CloudflareKVStore.put: store the serialised value unless the backend fails
CloudflarePut(store, key, value, failed) ==
    [threw |-> FALSE,
     store |-> IF failed THEN store ELSE [store EXCEPT ![key] = Serialize(value)]]

\* CloudflareKVStore.delete
CloudflareDelete(store, key, failed) ==
    [threw |-> FALSE,
     store |-> IF failed THEN store ELSE [store EXCEPT ![key] = NoRecord]]

\* CloudflareKVStore.list: the key names, or [] on a failure
CloudflareList(store, prefix, limit, failed) ==
    [threw |-> FALSE,
     value |-> IF failed THEN <<>> ELSE BackendList(store, prefix, limit)]

StoreGet(key, failed) ==
    /\ lastOp' = [op |-> "get", failed |-> failed,
                  out |-> CloudflareGet(kv, key, failed)]
    /\ UNCHANGED <<clock, config, shouldFail, cache, kv, requestLocks, calls,
                   rateLimiter, timers, retired, sweep, metrics>>

StorePut(key, failed) ==
    /\ lastOp' = [op |-> "put", failed |-> failed,
                  out |-> [threw |-> CloudflarePut(kv, key, PutRecord, failed).threw]]
    /\ kv' = CloudflarePut(kv, key, PutRecord, failed).store
    /\ UNCHANGED <<clock, config, shouldFail, cache, requestLocks, calls,
                   rateLimiter, timers, retired, sweep, metrics>>

StoreDelete(key, failed) ==
    /\ lastOp' = [op |-> "delete", failed |-> failed,
                  out |-> [threw |-> CloudflareDelete(kv, key, failed).threw]]
    /\ kv' = CloudflareDelete(kv, key, failed).store
    /\ UNCHANGED <<clock, config, shouldFail, cache, requestLocks, calls,
                   rateLimiter, timers, retired, sweep, metrics>>

StoreList(prefix, limit, failed) ==
    /\ lastOp' = [op |-> "list", failed |-> failed,
                  out |-> CloudflareList(kv, prefix, limit, failed)]
    /\ UNCHANGED <<clock, config, shouldFail, cache, kv, requestLocks, calls,
                   rateLimiter, timers, retired, sweep, metrics>>

InitStore == InitWith(Configs, {FALSE})

NextStore ==
    \/ \E key \in RlKeys, failed \in BOOLEAN : StoreGet(key, failed)
    \/ \E key \in RlKeys, failed \in BOOLEAN : StorePut(key, failed)
    \/ \E key \in RlKeys, failed \in BOOLEAN : StoreDelete(key, failed)
    \/ \E prefix \in Prefixes, limit \in 1..Len(KeyList), failed \in BOOLEAN :
          StoreList(prefix, limit, failed)
    \/ Tick

SpecStore == InitStore /\ [][NextStore]_vars

\* C13: no method of CloudflareKVStore throws; when the backend operation
\* fails, get returns null, put and delete return normally and list
\* returns the empty list.
C13_StoreNeverThrows ==
    lastOp.op \in {"get", "put", "delete", "list"} =>
        /\ ~lastOp.out.threw
        /\ (lastOp.failed /\ lastOp.op = "get") => lastOp.out.value = NoRecord
        /\ (lastOp.failed /\ lastOp.op = "list") => lastOp.out.value = <<>>

\* a get fails on a key that the store holds
C13_Witness ==
    /\ lastOp.op = "get"
    /\ lastOp.failed
    /\ \A k \in RlKeys : kv[k] # NoRecord

\* ------------------------------------------------------------------------
\* SpecCache: a caller uses an LRUCache directly (get, set, has, delete,
\* clear, cleanup) while time passes; capacities 0, 1 and 2 over three keys.
CacheKeys == {"k1", "k2", "k3"}
CacheValues == {[val |-> "v1"], [val |-> "v2"]}

ConfigsCache ==
    [kvEnabled : {FALSE}, memoryCacheSize : {0, 1, 2}, memoryCacheTTL : {1000},
     windowMs : {1000}, max : {1}]

InitCache == InitWith(ConfigsCache, {FALSE})

\* what a method call on the cache leaves alone
besideCache == <<clock, config, shouldFail, kv, requestLocks, calls,
                 rateLimiter, timers, retired, sweep, metrics>>

CacheGet(key) ==
    /\ cache' = LRUGet(cache, key, clock, config.memoryCacheTTL).cache
    /\ lastOp' = [op |-> "cache.get", key |-> key,
                  out |-> LRUGet(cache, key, clock, config.memoryCacheTTL).value]
    /\ UNCHANGED besideCache

CacheSet(key, value) ==
    /\ cache' = LRUSet(cache, key, value, clock, config.memoryCacheSize)
    /\ lastOp' = [op |-> "cache.set", key |-> key, out |-> value,
                  replaced |-> CacheIndex(cache, key) # 0]
    /\ UNCHANGED besideCache

CacheHas(key) ==
    /\ cache' = LRUHas(cache, key, clock, config.memoryCacheTTL).cache
    /\ lastOp' = [op |-> "cache.has", key |-> key,
                  out |-> LRUHas(cache, key, clock, config.memoryCacheTTL).value]
    /\ UNCHANGED besideCache

CacheDel(key) ==
    /\ cache' = LRUDelete(cache, key).cache
    /\ lastOp' = [op |-> "cache.delete", key |-> key,
                  out |-> LRUDelete(cache, key).value]
    /\ UNCHANGED besideCache

CacheClear ==
    /\ cache' = <<>>
    /\ lastOp' = [op |-> "cache.clear", key |-> "", out |-> TRUE]
    /\ UNCHANGED besideCache

CacheCleanup ==
    /\ cache' = LRUCleanup(cache, clock, config.memoryCacheTTL).cache
    /\ lastOp' = [op |-> "cache.cleanup", key |-> "",
                  out |-> LRUCleanup(cache, clock, config.memoryCacheTTL).cleaned]
    /\ UNCHANGED besideCache

NextCache ==
    \/ \E key \in CacheKeys : CacheGet(key)
    \/ \E key \in CacheKeys, value \in CacheValues : CacheSet(key, value)
    \/ \E key \in CacheKeys : CacheHas(key)
    \/ \E key \in CacheKeys : CacheDel(key)
    \/ CacheClear
    \/ CacheCleanup
    \/ Tick

SpecCache == InitCache /\ [][NextCache]_vars

\* the entry of the cache is older than ttl now
Expired(entry) == clock - entry.timestamp > config.memoryCacheTTL

\* C14: after every operation the cache holds at most maxSize entries, and
\* a set of a new key into a full cache drops exactly the entry at the
\* least-recently-used end and keeps all the others, in order, before the
\* new entry.
C14_CapacityAndEviction ==
    [][clock' = clock =>
          /\ Len(cache') <= config.memoryCacheSize
          /\ (/\ lastOp'.op = "cache.set"
              /\ CacheIndex(cache, lastOp'.key) = 0
              /\ Len(cache) > 0
              /\ Len(cache) = config.memoryCacheSize) =>
                /\ Len(cache') = Len(cache)
                /\ \A n \in 2..Len(cache) : cache'[n - 1] = cache[n]
                /\ CacheIndex(cache', cache[1].key) = 0
                /\ cache'[Len(cache')].key = lastOp'.key
      ]_vars

\* C15: with maxSize = 0 the cache is always empty and every get returns
\* null.
C15_ZeroCapacity ==
    config.memoryCacheSize = 0 =>
        /\ Len(cache) = 0
        /\ lastOp.op = "cache.get" => lastOp.out = NoRecord

\* C16: get returns null and changes nothing when the key is absent; when
\* the entry is older than ttl it removes that entry alone and returns
\* null; otherwise (an entry exactly ttl old included) it returns the
\* stored value and the entry, with its insertion time unchanged, becomes
\* the most recently used one, so the entry at the eviction end is another.
C16_GetSemantics ==
    [][(clock' = clock /\ lastOp'.op = "cache.get") =>
          LET key == lastOp'.key
              n == CacheIndex(cache, key)
          IN IF n = 0
             THEN lastOp'.out = NoRecord /\ cache' = cache
             ELSE IF Expired(cache[n])
                  THEN /\ lastOp'.out = NoRecord
                       /\ Len(cache') = Len(cache) - 1
                       /\ \A m \in 1..Len(cache) :
                             m # n => CacheIndex(cache', cache[m].key) # 0
                  ELSE /\ lastOp'.out = cache[n].value
                       /\ Len(cache') = Len(cache)
                       /\ cache'[Len(cache')] = cache[n]
                       /\ Len(cache) > 1 => cache'[1].key # key
                       /\ \A m \in 1..Len(cache) :
                             m # n => CacheIndex(cache', cache[m].key) # 0
      ]_vars

\* a get hit an entry exactly ttl old that was at the eviction end of a
\* full cache, and moved it behind the other entry
C16_Witness ==
    /\ lastOp.op = "cache.get"
    /\ lastOp.out # NoRecord
    /\ Len(cache) = 2
    /\ cache[2].key = lastOp.key
    /\ clock - cache[2].timestamp = config.memoryCacheTTL
    /\ cache[1].timestamp > cache[2].timestamp

\* C17: cleanup removes exactly the entries older than ttl, returns their
\* number, and keeps the other entries with their values, insertion times
\* and relative order.
C17_CleanupSemantics ==
    [][(clock' = clock /\ lastOp'.op = "cache.cleanup") =>
          /\ \A n \in 1..Len(cache) :
                Expired(cache[n]) <=> CacheIndex(cache', cache[n].key) = 0
          /\ \A m \in 1..Len(cache') :
                /\ CacheIndex(cache, cache'[m].key) # 0
                /\ cache[CacheIndex(cache, cache'[m].key)] = cache'[m]
          /\ \A m1, m2 \in 1..Len(cache') :
                m1 < m2 => CacheIndex(cache, cache'[m1].key)
                             < CacheIndex(cache, cache'[m2].key)
          /\ lastOp'.out = Len(cache) - Len(cache')
      ]_vars

\* a cleanup has just removed two expired entries
C17_Witness ==
    /\ lastOp.op = "cache.cleanup"
    /\ lastOp.out = 2
    /\ cache = <<>>

\* the keys held by a cache
CachedKeys(c) == {c[n].key : n \in 1..Len(c)}

\* C35: a set on a key that is already present evicts no other key, even
\* when the cache is full: the key set is unchanged, the other entries keep
\* their values, insertion times and order, and the entry of the key gets
\* the new value, the current time as insertion time and the most recently
\* used position.
C35_SetExistingKey ==
    [][(/\ clock' = clock
        /\ lastOp'.op = "cache.set"
        /\ CacheIndex(cache, lastOp'.key) # 0) =>
          /\ CachedKeys(cache') = CachedKeys(cache)
          /\ Len(cache') = Len(cache)
          /\ CacheDelete(cache', lastOp'.key) = CacheDelete(cache, lastOp'.key)
          /\ cache'[Len(cache')] = [key |-> lastOp'.key, value |-> lastOp'.out,
                                    timestamp |-> clock]
      ]_vars

\* a set has just replaced an entry of a full cache: the other entry,
\* inserted earlier, is still there, at the eviction end
C35_Witness ==
    /\ lastOp.op = "cache.set"
    /\ lastOp.replaced
    /\ Len(cache) = 2
    /\ config.memoryCacheSize = 2
    /\ cache[2].key = lastOp.key
    /\ cache[2].timestamp = clock
    /\ cache[1].timestamp > 1000
    /\ cache[1].timestamp < clock

\* C36: the TTL of an entry runs from the last set of its key, not from the
\* last read: only a set gives an entry its insertion time (the instant of
\* the set), a get or has that finds the entry moves it to the most recently
\* used end with that time unchanged, and a get returns a value only while
\* the entry is at most ttl old; has answers true exactly when get returns
\* a value, and evicts and reorders as get does.
C36_TtlFromLastSet ==
    [][clock' = clock =>
          LET key == lastOp'.key
              n == CacheIndex(cache, key)
              hit == IF n = 0 THEN FALSE
                     ELSE clock - cache[n].timestamp <= config.memoryCacheTTL
          IN /\ \A m \in 1..Len(cache') :
                   IF lastOp'.op = "cache.set" /\ cache'[m].key = key
                   THEN cache'[m].timestamp = clock
                   ELSE /\ CacheIndex(cache, cache'[m].key) # 0
                        /\ cache'[m] = cache[CacheIndex(cache, cache'[m].key)]
             /\ lastOp'.op = "cache.get" =>
                   lastOp'.out = IF hit THEN cache[n].value ELSE NoRecord
             /\ lastOp'.op = "cache.has" => lastOp'.out = hit
             /\ lastOp'.op \in {"cache.get", "cache.has"} =>
                   cache' = IF n = 0 THEN cache
                            ELSE IF hit THEN Append(CacheDelete(cache, key), cache[n])
                                 ELSE CacheDelete(cache, key)
      ]_vars

\* has has just answered true for an entry exactly ttl old that a read had
\* moved behind an entry set later
C36_Witness ==
    /\ lastOp.op = "cache.has"
    /\ lastOp.out = TRUE
    /\ Len(cache) = 2
    /\ cache[2].key = lastOp.key
    /\ clock - cache[2].timestamp = config.memoryCacheTTL
    /\ cache[1].timestamp > cache[2].timestamp

\* ------------------------------------------------------------------------
\* SpecSweep: cleanup() of the limiter (src/unnamed/part_014:188-225) runs
\* beside awaited checkRequest calls for two keys.  Each durable operation
\* of the sweep is served, or fails by throwing (as MockKVStore does), or
\* fails with the neutral value (as CloudflareKVStore does).
ListLimit == 100

Failures == {"none", "throws", "neutral"}

ConfigsSweep ==
    [kvEnabled : BOOLEAN, memoryCacheSize : {DefaultMaxSize},
     memoryCacheTTL : {DefaultTTL}, windowMs : {1000}, max : {1},
     cleanupThreshold : {1000}]

InitSweep == InitWith(ConfigsSweep, {FALSE})

besideSweep == <<clock, config, shouldFail, requestLocks, calls,
                 rateLimiter, timers, retired, lastOp, metrics>>

\* cleanup() is called: nothing to do without the durable tier; else sweep
\* L1 and await kvStore.list
SweepStart ==
    /\ sweep.pc \in {"idle", "done"}
    /\ IF ~config.kvEnabled
       THEN /\ sweep' = [pc |-> "done", keys |-> <<>>, now |-> clock, next |-> 1,
                         cleaned |-> 0, skipped |-> {}]
            /\ cache' = cache
       ELSE /\ sweep' = [pc |-> "list", keys |-> <<>>, now |-> clock, next |-> 1,
                         cleaned |-> 0, skipped |-> {}]
            /\ cache' = LRUCleanup(cache, clock, config.memoryCacheTTL).cache
    /\ UNCHANGED <<kv, besideSweep>>

\* the loop moves on to the key after the current one, or ends
NextKey(sw) ==
    [sw EXCEPT !.next = @ + 1,
               !.pc = IF sw.next + 1 > Len(sw.keys) THEN "done" ELSE "get"]

\* an error on a key that nothing catches: cleanup() rejects
OnKeyErrorUncaught(sw) == [sw EXCEPT !.pc = "threw"]

\* the inner catch: log 'Cleanup failed for key' and go on with the loop
OnKeyError(sw) ==
    NextKey([sw EXCEPT !.skipped = @ \cup {sw.keys[sw.next]}])

\* kvStore.list settles; now = Date.now() is taken for the whole loop
SweepListReturn(failure) ==
    /\ sweep.pc = "list"
    /\ LET keys == IF failure = "none"
                   THEN BackendList(kv, "rl:v1:", ListLimit) ELSE <<>>
           sw == [sweep EXCEPT !.keys = keys, !.now = clock]
       IN sweep' = IF failure = "throws" \/ keys = <<>>
                   THEN [sw EXCEPT !.pc = "done"]
                   ELSE [sw EXCEPT !.pc = "get"]
    /\ UNCHANGED <<cache, kv, besideSweep>>

\* kvStore.get(key) settles: delete when there is no record or the record
\* is idle past the threshold
SweepGetReturn(failure) ==
    /\ sweep.pc = "get"
    /\ LET record == IF failure = "none" THEN Parse(kv[sweep.keys[sweep.next]])
                     ELSE NoRecord
           idle == IF record = NoRecord THEN TRUE
                   ELSE sweep.now - record.lastAccess > config.cleanupThreshold
       IN sweep' = IF failure = "throws" THEN OnKeyError(sweep)
                   ELSE IF idle
                        THEN [sweep EXCEPT !.pc = "delete"]
                        ELSE NextKey(sweep)
    /\ UNCHANGED <<cache, kv, besideSweep>>

\* kvStore.delete(key) settles
SweepDeleteReturn(failure) ==
    /\ sweep.pc = "delete"
    /\ kv' = IF failure = "none"
             THEN [kv EXCEPT ![sweep.keys[sweep.next]] = NoRecord] ELSE kv
    /\ sweep' = IF failure = "throws" THEN OnKeyError(sweep)
                ELSE NextKey([sweep EXCEPT !.cleaned = @ + 1])
    /\ UNCHANGED <<cache, besideSweep>>

NextSweep ==
    \/ \E key \in Keys : Invoke(1, key, config.windowMs, config.max, NoMeta)
    \/ KvGetReturn(1)
    \/ KvPutReturn(1)
    \/ Return(1)
    \/ Forget(1)
    \/ SweepStart
    \/ \E failure \in Failures : SweepListReturn(failure)
    \/ \E failure \in Failures : SweepGetReturn(failure)
    \/ \E failure \in Failures : SweepDeleteReturn(failure)
    \/ Tick

SpecSweep == InitSweep /\ [][NextSweep]_vars

\* C18: whenever a key disappears from the durable store, the record it
\* held at that moment was idle past the threshold:
\* now - lastAccess > cleanupThreshold.
C18_SweepDeletesOnlyIdle ==
    [][\A k \in RlKeys :
          (kv[k] # NoRecord /\ kv'[k] = NoRecord) =>
              clock - kv[k].lastAccess > config.cleanupThreshold
      ]_vars

\* C19: cleanup() never throws, whatever durable operations fail: a started
\* sweep is at one of its awaits or has resolved, and a resolved sweep has
\* gone through every key that was listed, the keys whose get or delete
\* threw included.
C19_SweepNeverThrows ==
    IF sweep.pc = "idle" THEN TRUE
    ELSE /\ sweep.pc \in {"list", "get", "delete", "done"}
         /\ sweep.pc \in {"get", "delete"} => sweep.next <= Len(sweep.keys)
         /\ sweep.pc = "done" => sweep.next = Len(sweep.keys) + 1
         /\ sweep.skipped \subseteq {sweep.keys[n] : n \in 1..Len(sweep.keys)}

\* a sweep resolved after an operation on its first key threw and its
\* second key was deleted
C19_Witness ==
    IF sweep.pc # "done" THEN FALSE
    ELSE /\ Len(sweep.keys) = 2
         /\ sweep.skipped = {sweep.keys[1]}
         /\ sweep.cleaned = 1
         /\ kv[sweep.keys[2]] = NoRecord

\* ------------------------------------------------------------------------
\* the record carries the parameters of the call
CarriesParameters(record, cl) ==
    /\ record.windowMs = cl.windowMs
    /\ record.maxRequests = cl.maxRequests
    /\ cl.metadata # NoMeta => record.metadata = cl.metadata

\* C20: when a checkRequest call completes, the record tracked for its key
\* in L1, and in L2 when the durable tier is enabled and healthy, carries the
\* windowMs and maxRequests of that call (and its metadata when one was
\* passed); and the decision of the call is the test of the new maxRequests
\* against the recorded timestamps that lie inside the new window.
C20_ParametersOverwritten ==
    [][LET cl == calls'[1]
           rlKey == generateKey(cl.key)
           inL1 == CacheValue(cache', rlKey)
           inL2 == Parse(kv'[rlKey])
           read == IF calls[1].pc = "kvget" THEN Parse(kv[rlKey])
                   ELSE IF cl.source = "cache" THEN CacheValue(cache, rlKey)
                   ELSE NoRecord
           inWindow == Prune(StoredTimestamps(read), cl.now - cl.windowMs)
       IN /\ (calls[1].pc = "ret" /\ cl.pc = "done") =>
                /\ inL1 # NoRecord => CarriesParameters(inL1, cl)
                /\ (config.kvEnabled /\ ~shouldFail /\ inL2 # NoRecord) =>
                      CarriesParameters(inL2, cl)
          /\ (Processes /\ cl.maxRequests > 0) =>
                cl.isAllowed = (Len(inWindow) < cl.maxRequests)
      ]_vars

\* ------------------------------------------------------------------------
\* pc values of a call that is inside _processRequest or has not yet run
\* the finally block
InSection == {"kvget", "kvput", "ret"}

\* the calls for the key that are inside the read-evaluate-write section
Inside(rlKey) ==
    {i \in CallIds : calls[i].pc \in InSection /\ generateKey(calls[i].key) = rlKey}

\* C21: at no time are two calls for one key inside _processRequest; a call
\* inside holds the key's lock; a call waiting on the lock has read no
\* record, and in the step in which it leaves the wait no call is inside
\* and the lock is free, and after that same step the lock is taken (test
\* and acquisition are one step).
C21_MutualExclusion ==
    [][\A i \in CallIds :
          LET rlKey == generateKey(calls'[i].key)
              inside == {j \in CallIds : /\ calls'[j].pc \in InSection
                                         /\ generateKey(calls'[j].key) = rlKey}
          IN /\ calls'[i].pc \in InSection =>
                   /\ inside = {i}
                   /\ rlKey \in requestLocks'
             /\ calls'[i].pc = "spin" =>
                   /\ calls'[i].record = NoRecord
                   /\ calls'[i].result = NoResult
             /\ (calls[i].pc = "spin" /\ calls'[i].pc # "spin") =>
                   /\ Inside(rlKey) = {}
                   /\ rlKey \notin requestLocks
                   /\ calls'[i].pc \in InSection
      ]_vars

\* one call is suspended inside the section while two more wait on the lock
C21_Witness ==
    \E i, j, k \in CallIds :
        /\ calls[i].pc = "kvput"
        /\ calls[j].pc = "spin" /\ calls[k].pc = "spin" /\ j # k
        /\ calls[j].key = calls[i].key /\ calls[k].key = calls[i].key

\* ------------------------------------------------------------------------
\* SpecLive: an unending stream of checkRequest calls for one key over
\* LiveCalls promises that are reused once settled; passed limits include
\* zero; the clock stands still.  The event loop runs every task: a
\* durable-store call returns and the continuation of a settled await runs
\* (weak fairness); the setTimeout(0) of a waiting call fires again and
\* again, each time between two tasks, when no continuation is pending
\* (strong fairness of SpinTimer).
LiveCalls == 2

LiveIds == 1..LiveCalls

ConfigsLive ==
    [kvEnabled : BOOLEAN, memoryCacheSize : {DefaultMaxSize},
     memoryCacheTTL : {DefaultTTL}, windowMs : {1000}, max : {1}]

InitLive == InitWith(ConfigsLive, BOOLEAN)

InvokeLive(i) ==
    \E maxRequests \in {0, config.max} :
        Invoke(i, "a", config.windowMs, maxRequests, NoMeta)

\* lines 28-31, one turn of the loop: the timer of the waiting call fires;
\* the call takes the lock if it is free and arms the next timer if not.
\* lastOp records the timers armed (their parity).
SpinTimer(i) ==
    /\ calls[i].pc = "spin"
    /\ \A j \in CallIds : calls[j].pc # "ret"
    /\ IF LockHeld(generateKey(calls[i].key))
       THEN /\ lastOp' = [op |-> "setTimeout",
                          odd |-> IF lastOp = NoOp THEN TRUE ELSE ~lastOp.odd]
            /\ UNCHANGED <<cache, requestLocks, calls>>
       ELSE /\ Enter(i, calls[i])
            /\ lastOp' = lastOp
    /\ UNCHANGED <<clock, config, shouldFail, kv, rateLimiter, timers, retired, sweep, metrics>>

NextLive ==
    \/ \E i \in LiveIds : InvokeLive(i)
    \/ \E i \in LiveIds : SpinTimer(i)
    \/ \E i \in LiveIds : KvGetReturn(i)
    \/ \E i \in LiveIds : KvPutReturn(i)
    \/ \E i \in LiveIds : Return(i)
    \/ \E i \in LiveIds : Forget(i)

FairLive ==
    \A i \in LiveIds :
        /\ SF_vars(SpinTimer(i))
        /\ WF_vars(KvGetReturn(i))
        /\ WF_vars(KvPutReturn(i))
        /\ WF_vars(Return(i))

SpecLive == InitLive /\ [][NextLive]_vars /\ FairLive

\* C22: a key is locked only while a call for it is in flight inside
\* checkRequest, and every call that waits on the locked key eventually
\* returns a result.
C22_LockReleasedAndProgress ==
    /\ [](\A rlKey \in requestLocks : Inside(rlKey) # {})
    /\ \A i \in LiveIds :
          (calls[i].pc = "spin") ~>
              (calls[i].pc = "done" /\ calls[i].waited /\ calls[i].result # NoResult)

\* ------------------------------------------------------------------------
\* the records held by L1 and by the durable store
HeldRecords ==
    {cache[n].value : n \in 1..Len(cache)} \cup
    {Parse(kv[k]) : k \in {k \in RlKeys : kv[k] # NoRecord}}

Ascending(ts) == \A m, n \in 1..Len(ts) : m < n => ts[m] <= ts[n]

\* C23: in every reachable state the timestamps of every record held in L1
\* or L2 are in ascending order.
C23_TimestampsAscending ==
    \A record \in HeldRecords : Ascending(record.timestamps)

\* C24: the timestamps list of every record held after an evaluation has
\* at most as many entries as the record's maxRequests.
C24_LengthWithinLimit ==
    \A record \in HeldRecords : Len(record.timestamps) <= record.maxRequests

\* the lastAccess a store holds for the key, 0 when it holds no record
StoredLastAccess(record) == IF record = NoRecord THEN 0 ELSE record.lastAccess

\* C25: no step lowers the lastAccess of the key's record in L1 or in L2.
C25_LastAccessMonotonic ==
    [][\A k \in RlKeys :
          /\ (CacheValue(cache, k) # NoRecord /\ CacheValue(cache', k) # NoRecord) =>
                StoredLastAccess(CacheValue(cache', k)) >=
                    StoredLastAccess(CacheValue(cache, k))
          /\ (kv[k] # NoRecord /\ kv'[k] # NoRecord) =>
                StoredLastAccess(Parse(kv'[k])) >= StoredLastAccess(Parse(kv[k]))
      ]_vars

\* the L1 record of the key when the entry is present and within its TTL
LiveValue(rlKey) ==
    LET n == CacheIndex(cache, rlKey)
    IN IF n = 0 THEN NoRecord
       ELSE IF clock - cache[n].timestamp > config.memoryCacheTTL THEN NoRecord
       ELSE cache[n].value

\* C26: with the durable tier enabled and healthy and no call for the key
\* in flight, a live L1 record of the key equals the L2 record in
\* timestamps, windowMs, maxRequests, lastAccess and metadata.
C26_WriteThroughConsistent ==
    \A k \in RlKeys :
        (/\ config.kvEnabled /\ ~shouldFail
         /\ \A i \in CallIds :
               calls[i].pc \in {"idle", "done"} \/ generateKey(calls[i].key) # k
         /\ LiveValue(k) # NoRecord)
            => /\ SameFields(LiveValue(k), Parse(kv[k]))
               /\ LiveValue(k).lastAccess = Parse(kv[k]).lastAccess

\* ------------------------------------------------------------------------
\* SpecExpiry: the sweep beside checkRequest calls as in SpecSweep, with an
\* L1 TTL short enough for entries to expire while the clock advances.
ConfigsExpiry ==
    [kvEnabled : BOOLEAN, memoryCacheSize : {DefaultMaxSize},
     memoryCacheTTL : {1000}, windowMs : {1000}, max : {1},
     cleanupThreshold : {1000}]

InitExpiry == InitWith(ConfigsExpiry, {FALSE})

SpecExpiry == InitExpiry /\ [][NextSweep]_vars

\* C27: when cleanup() returns, L1 holds no entry older than its TTL.
C27_SweepCleansL1 ==
    [][(sweep' # sweep /\ sweep'.pc = "done") =>
          \A n \in 1..Len(cache') :
              ~(clock' - cache'[n].timestamp > config.memoryCacheTTL)
      ]_vars

\* ------------------------------------------------------------------------
\* SpecMany: one limiter over a healthy durable store that already holds
\* records, of rate-limit keys and of a key outside the prefix; no
\* checkRequest runs.  cleanup() is run, possibly several times, while the
\* clock advances.
ManyNames == {generateKey(ManyIds[n]) : n \in 1..ManyKeys}

\* how many rate-limit keys the store holds at the start
StoredCounts == {1, 2, ListLimit, ManyKeys}

ConfigsMany ==
    [kvEnabled : {TRUE}, memoryCacheSize : {DefaultMaxSize},
     memoryCacheTTL : {DefaultTTL}, windowMs : {1000}, max : {1},
     cleanupThreshold : {1000}]

\* the record of a key last used at instant t
RecordAt(t) ==
    Serialize([timestamps |-> <<t>>, tsIsList |-> TRUE, windowMs |-> 1000,
               maxRequests |-> 1, lastAccess |-> t, metadata |-> NoMeta])

InitMany ==
    /\ clock \in {2000, 2001}
    /\ config \in ConfigsMany
    /\ shouldFail = FALSE
    /\ cache = <<>>
    /\ \E count \in StoredCounts, first \in {1000, 2000} :
          kv = [k \in ManyNames \cup {OutsideName} |->
                   IF k = OutsideName \/ k = generateKey(ManyIds[1]) THEN RecordAt(first)
                   ELSE IF \E n \in 2..count : k = generateKey(ManyIds[n])
                        THEN RecordAt(1000)
                        ELSE NoRecord]
    /\ requestLocks = {}
    /\ calls = [i \in CallIds |-> IdleCall]
    /\ rateLimiter = 0
    /\ timers = {}
    /\ retired = <<>>
    /\ sweep = IdleSweep
    /\ lastOp = NoOp
    /\ metrics = NoMetrics

NextMany ==
    \/ SweepStart
    \/ SweepListReturn("none")
    \/ SweepGetReturn("none")
    \/ SweepDeleteReturn("none")
    \/ Tick

SpecMany == InitMany /\ [][NextMany]_vars

\* the keys under the rate-limit prefix whose record is idle past the
\* threshold at the instant now
IdleNames(store, now) ==
    {k \in DOMAIN store :
        /\ k[1] = "rl:v1:"
        /\ store[k] # NoRecord
        /\ now - Parse(store[k]).lastAccess > config.cleanupThreshold}

\* C28: when a cleanup() run over a healthy store without concurrent calls
\* resolves, no key under rl:v1: is left whose record is idle past the
\* threshold at the sweep's now; and the sweep fetches and deletes no key
\* outside the prefix.
C28_SweepComplete ==
    [][/\ (sweep' # sweep /\ sweep'.pc = "done") =>
             IdleNames(kv', sweep'.now) = {}
       /\ kv'[OutsideName] = kv[OutsideName]
       /\ sweep'.pc \in {"get", "delete"} => sweep'.keys[sweep'.next][1] = "rl:v1:"
      ]_vars

\* ------------------------------------------------------------------------
\* the instants of the allowed calls before j that lie in the window of
\* call j, in the order of the calls
AllowedTimes(j) ==
    LET before == SelectSeq([i \in 1..(j - 1) |-> i],
                            LAMBDA i : i \in AllowedInWindow(j))
    IN [n \in 1..Len(before) |-> calls[before[n]].now]

\* C29: for awaited calls on one key, the timestamps a call leaves in the
\* record are the instants of the earlier allowed calls inside its window
\* followed by its own now if it is allowed, and by nothing if it is
\* denied; L1 holds that list once the call has returned; a denied call
\* reports as reset time the instant at which the oldest of those allowed
\* calls leaves the window.
C29_OnlyAllowedConsume ==
    \A j \in Resolved :
        LET cl == calls[j]
            own == IF cl.result.allowed THEN <<cl.now>> ELSE <<>>
        IN /\ cl.record.timestamps = AllowedTimes(j) \o own
           /\ (Quiescent /\ \A i \in Resolved : i <= j) =>
                 CacheValue(cache, generateKey(cl.key)).timestamps =
                     AllowedTimes(j) \o own
           /\ ~cl.result.allowed =>
                 /\ AllowedTimes(j) # <<>>
                 /\ cl.result.resetTime = AllowedTimes(j)[1] + cl.windowMs

\* with maxRequests = 1: allowed at t, denied twice inside the window,
\* allowed again at t + windowMs with only that instant stored
C29_Witness ==
    /\ config.max = 1
    /\ Resolved = 1..4 /\ Quiescent
    /\ Allowed = {1, 4} /\ Denied = {2, 3}
    /\ calls[4].now = calls[1].now + config.windowMs
    /\ CacheValue(cache, generateKey("a")).timestamps = <<calls[4].now>>

\* ------------------------------------------------------------------------
\* SpecSource: awaited calls for one key, with limits 0 and 1, over a
\* store whose failure flag is switched on and off as the tests do
\* (mockKV.shouldFail = true / false); L1 entries are cleared or expire.
ConfigsSource ==
    [kvEnabled : BOOLEAN, memoryCacheSize : {DefaultMaxSize},
     memoryCacheTTL : {1000, DefaultTTL}, windowMs : {1000}, max : {1}]

InitSource == InitWith(ConfigsSource, BOOLEAN)

InvokeSource ==
    \E maxRequests \in {0, config.max} :
        Invoke(1, "a", config.windowMs, maxRequests, NoMeta)

\* mockKV.shouldFail = !mockKV.shouldFail
SetShouldFail ==
    /\ shouldFail' = ~shouldFail
    /\ UNCHANGED <<clock, config, cache, kv, requestLocks, calls>>
    /\ UNCHANGED others

NextSource ==
    \/ InvokeSource
    \/ KvGetReturn(1)
    \/ KvPutReturn(1)
    \/ Return(1)
    \/ Forget(1)
    \/ SetShouldFail
    \/ ClearMemoryCache
    \/ Tick

SpecSource == InitSource /\ [][NextSource]_vars

\* C30: source is cache exactly when the L1 lookup hits; kv exactly when L1
\* misses, the durable tier is enabled and the durable get returns a record,
\* which is then in L1; new in every other case; and the result carries
\* that source and the configured kvEnabled flag.
C30_SourceOfRecord ==
    [][LET cl == calls'[1]
           rlKey == generateKey(cl.key)
           hit == LiveValue(rlKey) # NoRecord
           got == ~shouldFail /\ kv[rlKey] # NoRecord
       IN /\ (calls[1].pc = "idle" /\ cl.pc # "idle") =>
                /\ hit => cl.source = "cache" /\ cl.pc \in {"kvput", "ret"}
                /\ (~hit /\ config.kvEnabled) => cl.pc = "kvget"
                /\ (~hit /\ ~config.kvEnabled) =>
                      cl.source = "new" /\ cl.pc = "ret"
          /\ (calls[1].pc = "kvget" /\ cl.pc # "kvget") =>
                /\ got => cl.source = "kv" /\ CacheValue(cache', rlKey) # NoRecord
                /\ ~got => cl.source = "new"
          /\ cl.result # NoResult =>
                /\ cl.result.source = cl.source
                /\ cl.result.kvEnabled = config.kvEnabled
      ]_vars

\* a zero-limit call has returned source = kv: its L1 entry had expired
\* and the durable get returned the record
C30_Witness ==
    /\ calls[1].pc = "done"
    /\ calls[1].maxRequests = 0
    /\ calls[1].result.source = "kv"
    /\ calls[1].result.kvEnabled
    /\ config.memoryCacheTTL = 1000
    /\ CacheValue(cache, generateKey("a")) # NoRecord

\* ------------------------------------------------------------------------
\* C31: every result has 0 <= remaining <= maxRequests, remaining =
\* max(0, maxRequests - number of timestamps retained after the call),
\* remaining = 0 when denied, and resetTime = (oldest retained timestamp,
\* or now if none) + windowMs, not earlier than the call's now.
C31_ResultWellFormed ==
    \A i \in Resolved :
        LET cl == calls[i]
            r == cl.result
            retained == cl.record.timestamps
        IN /\ 0 <= r.remaining /\ r.remaining <= cl.maxRequests
           /\ r.remaining = Max0(cl.maxRequests - Len(retained))
           /\ ~r.allowed => r.remaining = 0
           /\ r.resetTime = (IF retained = <<>> THEN cl.now ELSE Oldest(retained))
                                + cl.windowMs
           /\ r.resetTime >= cl.now

\* ------------------------------------------------------------------------
\* SpecReinit: the request handler calls initializeRateLimiter on every
\* request (src/src/handler.ts:233-235), also while checkRateLimit calls of
\* earlier requests are suspended.  A replaced instance stays alive as long
\* as its calls run: `retired` keeps its L1, its requestLocks and its calls.
\* The durable store is shared by all instances and healthy; the requests
\* arrive at one instant.
ReinitCalls == 2

ReinitIds == 1..ReinitCalls

ConfigsReinit ==
    [kvEnabled : {TRUE}, memoryCacheSize : {DefaultMaxSize},
     memoryCacheTTL : {DefaultTTL}, windowMs : {1000}, max : {1},
     cleanupInterval : {0}]

InitReinit == InitWith(ConfigsReinit, {FALSE})

\* the replaced instances on which call i runs
OnRetired(i) == {n \in 1..Len(retired) : i \in retired[n].inflight}

\* the calls that have been made and have not returned
InFlight == {i \in CallIds : calls[i].pc \in {"spin", "kvget", "kvput", "ret"}}

\* initializeRateLimiter while calls may be in flight: the active instance
\* is disposed and replaced by one with an empty L1 and no locks
Reinitialize ==
    /\ Len(retired) + (IF Active THEN 2 ELSE 1) <= MaxInstances
    /\ LET old == Disposed([cleanupTimer |-> rateLimiter \in timers,
                            cache |-> cache,
                            requestLocks |-> requestLocks,
                            inflight |-> {i \in InFlight : OnRetired(i) = {}}])
       IN /\ retired' = IF Active THEN Append(retired, old) ELSE retired
          /\ rateLimiter' = Len(retired) + (IF Active THEN 2 ELSE 1)
    /\ cache' = <<>>
    /\ requestLocks' = {}
    /\ lastOp' = [op |-> "initializeRateLimiter"]
    /\ UNCHANGED <<clock, config, shouldFail, kv, calls, timers, sweep, metrics>>

\* checkRateLimit on the active instance
CheckReinit(i) ==
    /\ Active
    /\ Invoke(i, "a", config.windowMs, config.max, NoMeta)

\* continuations of a call that runs on the active instance
ActiveSpin(i) == OnRetired(i) = {} /\ Spin(i)
ActiveKvGetReturn(i) == OnRetired(i) = {} /\ KvGetReturn(i)
ActiveReturn(i) == OnRetired(i) = {} /\ Return(i)

\* continuations of a call that runs on the replaced instance n: they use
\* the L1 and the requestLocks of that instance
RetiredSpin(n, i) ==
    /\ n \in OnRetired(i)
    /\ calls[i].pc = "spin"
    /\ generateKey(calls[i].key) \notin retired[n].requestLocks
    /\ LET e == Entered(calls[i], retired[n].cache, clock, config)
       IN /\ retired' = [retired EXCEPT
                            ![n].cache = e.cache,
                            ![n].requestLocks = @ \cup {generateKey(calls[i].key)}]
          /\ calls' = [calls EXCEPT ![i] = e.call]
    /\ UNCHANGED <<clock, config, shouldFail, cache, kv, requestLocks,
                   rateLimiter, timers, sweep, lastOp, metrics>>

RetiredKvGetReturn(n, i) ==
    /\ n \in OnRetired(i)
    /\ calls[i].pc = "kvget"
    /\ LET l == Loaded(calls[i], retired[n].cache, kv[generateKey(calls[i].key)],
                       shouldFail, clock, config)
       IN /\ retired' = [retired EXCEPT ![n].cache = l.cache]
          /\ calls' = [calls EXCEPT ![i] = l.call]
    /\ UNCHANGED <<clock, config, shouldFail, cache, kv, requestLocks,
                   rateLimiter, timers, sweep, lastOp, metrics>>

RetiredReturn(n, i) ==
    /\ n \in OnRetired(i)
    /\ calls[i].pc = "ret"
    /\ retired' = [retired EXCEPT
                      ![n].requestLocks = @ \ {generateKey(calls[i].key)}]
    /\ calls' = [calls EXCEPT ![i].pc = "done"]
    /\ UNCHANGED <<clock, config, shouldFail, cache, kv, requestLocks,
                   rateLimiter, timers, sweep, lastOp, metrics>>

NextReinit ==
    \/ Reinitialize
    \/ \E i \in ReinitIds : CheckReinit(i)
    \/ \E i \in ReinitIds : ActiveSpin(i)
    \/ \E i \in ReinitIds : ActiveKvGetReturn(i)
    \/ \E i \in ReinitIds : ActiveReturn(i)
    \/ \E i \in ReinitIds : KvPutReturn(i)
    \/ \E n \in 1..MaxInstances, i \in ReinitIds : RetiredSpin(n, i)
    \/ \E n \in 1..MaxInstances, i \in ReinitIds : RetiredKvGetReturn(n, i)
    \/ \E n \in 1..MaxInstances, i \in ReinitIds : RetiredReturn(n, i)

SpecReinit == InitReinit /\ [][NextReinit]_vars

\* C32: with a healthy durable store, checkRateLimit calls for one key that
\* are made within one window never get more than maxRequests allowed
\* results, whenever initializeRateLimiter is called in between.
C32_BoundSurvivesReinit ==
    (/\ ~shouldFail
     /\ \A i, j \in Started : calls[i].now - calls[j].now < config.windowMs)
        => Cardinality({i \in Allowed : calls[i].key = "a"}) <= config.max

\* ------------------------------------------------------------------------
\* the calls that take a step
Movers == {i \in CallIds : calls'[i] # calls[i]}

\* C33: a step changes the durable record of a key only as the put of a
\* call for that key, storing that call's record; a call that reports
\* source = kv found a record under its own key; an L1 entry gets a new
\* value only in a step of a call for its key; and different identities
\* have different keys.
C33_DurableFrame ==
    [][/\ \A k \in RlKeys :
             /\ kv'[k] # kv[k] =>
                   \E i \in Movers :
                       /\ calls[i].pc = "kvput"
                       /\ generateKey(calls[i].key) = k
                       /\ kv'[k] = Serialize(calls[i].record)
             /\ (/\ CacheValue(cache', k) # CacheValue(cache, k)
                 /\ CacheValue(cache', k) # NoRecord) =>
                   \E i \in Movers : generateKey(calls'[i].key) = k
       /\ \A i \in Movers :
             (calls[i].pc = "kvget" /\ calls'[i].source = "kv") =>
                 /\ kv[generateKey(calls[i].key)] # NoRecord
                 /\ Len(calls'[i].record.timestamps) >=
                       Len(Prune(Parse(kv[generateKey(calls[i].key)]).timestamps,
                                 calls[i].now - calls[i].windowMs))
       /\ \A id1, id2 \in Keys : generateKey(id1) = generateKey(id2) => id1 = id2
      ]_vars

\* both identities have a durable record, written at different instants,
\* while a call for one of them is suspended on its own put
C33_Witness ==
    /\ kv[generateKey("a")] # NoRecord
    /\ kv[generateKey("b")] # NoRecord
    /\ kv[generateKey("a")].lastAccess # kv[generateKey("b")].lastAccess
    /\ \E i \in CallIds : calls[i].pc = "kvput" /\ calls[i].key = "b"
    /\ \E i \in CallIds : calls[i].pc = "kvget" /\ calls[i].key = "a"

\* ------------------------------------------------------------------------
\* SpecMetrics: the calls of one key with the counters of InMemoryMetrics.
\* Each call brings its own limit; the clock advances between and during
\* the calls.

\* InMemoryMetrics.inc through incAllow / incDeny / incL1Hit
incAllow(m) == [m EXCEPT !.allow = @ + 1]

incDeny(m) == [m EXCEPT !.deny = @ + 1]

incL1Hit(m) == [m EXCEPT !.l1Hits = @ + 1]

\* line 53: the L1 lookup found a record
HitCounted(m, cl, c, t, cfg) ==
    IF LRUGet(c, generateKey(cl.key), t, cfg.memoryCacheTTL).value # NoRecord
    THEN incL1Hit(m)
    ELSE m

\* lines 160-162, reached only past the zero-limit return of line 117
ResultCounted(m, cl) ==
    IF cl.maxRequests = 0
    THEN m
    ELSE IF cl.isAllowed THEN incAllow(m) ELSE incDeny(m)

\* the counters after a run of _processRequest that left the call as `after`:
\* the result is counted when the run reached the return
RunCounted(m, after) ==
    IF after.pc = "ret" THEN ResultCounted(m, after) ELSE m

ConfigsMetrics ==
    [kvEnabled : BOOLEAN, memoryCacheSize : {DefaultMaxSize},
     memoryCacheTTL : {DefaultTTL}, windowMs : {1000}, max : {1}]

InitMetrics == InitWith(ConfigsMetrics, {FALSE})

\* checkRequest with the lock free: the call runs to its first await
InvokeMetrics(i) ==
    /\ Quiescent
    /\ calls[i].pc = "idle"
    /\ \A j \in CallIds : j < i => calls[j].pc # "idle"
    /\ \E maxRequests \in PolicyLimits :
          LET cl == Invoked("a", config.windowMs, maxRequests, NoMeta, clock)
              e == Entered(cl, cache, clock, config)
          IN /\ ~LockHeld(generateKey(cl.key))
             /\ requestLocks' = requestLocks \cup {generateKey(cl.key)}
             /\ cache' = e.cache
             /\ calls' = [calls EXCEPT ![i] = e.call]
             /\ metrics' = RunCounted(HitCounted(metrics, cl, cache, clock, config),
                                      e.call)
    /\ UNCHANGED <<clock, config, shouldFail, kv, rateLimiter, timers, retired,
                   sweep, lastOp>>

\* kvStore.get settles
KvGetReturnMetrics(i) ==
    /\ calls[i].pc = "kvget"
    /\ LET l == Loaded(calls[i], cache, kv[generateKey(calls[i].key)],
                       shouldFail, clock, config)
       IN /\ cache' = l.cache
          /\ calls' = [calls EXCEPT ![i] = l.call]
          /\ metrics' = RunCounted(metrics, l.call)
    /\ UNCHANGED <<clock, config, shouldFail, kv, requestLocks, rateLimiter,
                   timers, retired, sweep, lastOp>>

\* kvStore.put settles, the result is built and counted
KvPutReturnMetrics(i) ==
    /\ calls[i].pc = "kvput"
    /\ LET cl == calls[i]
           rlKey == generateKey(cl.key)
       IN /\ kv' = IF shouldFail THEN kv
                   ELSE [kv EXCEPT ![rlKey] = Serialize(cl.record)]
          /\ calls' = [calls EXCEPT ![i] =
                          [cl EXCEPT !.pc = "ret", !.result = FinalResult(cl, config)]]
          /\ metrics' = ResultCounted(metrics, cl)
    /\ UNCHANGED <<clock, config, shouldFail, cache, requestLocks, rateLimiter,
                   timers, retired, sweep, lastOp>>

NextMetrics ==
    \/ \E i \in CallIds : InvokeMetrics(i)
    \/ \E i \in CallIds : KvGetReturnMetrics(i)
    \/ \E i \in CallIds : KvPutReturnMetrics(i)
    \/ \E i \in CallIds : Return(i)
    \/ Tick

SpecMetrics == InitMetrics /\ [][NextMetrics]_vars

\* the completed calls
Completed == {i \in CallIds : calls[i].pc = "done"}

\* the calls whose L1 lookup has been made and found the record
ServedFromL1 ==
    {i \in CallIds : calls[i].pc \in {"kvput", "ret", "done"} /\ calls[i].source = "cache"}

\* C34: every checkRequest that returns a result increments exactly one of
\* the allow / deny counters, the one matching its allowed flag, so that
\* whenever no call is in flight allow + deny is the number of completed
\* calls; l1Hits counts once each call whose source is the cache; and no
\* counter ever decreases.
C34_MetricsAccounting ==
    /\ [](Quiescent =>
            /\ metrics.allow = Cardinality({i \in Completed : calls[i].result.allowed})
            /\ metrics.deny = Cardinality({i \in Completed : ~calls[i].result.allowed})
            /\ metrics.allow + metrics.deny = Cardinality(Completed))
    /\ [](metrics.l1Hits = Cardinality(ServedFromL1))
    /\ [][/\ metrics'.allow >= metrics.allow
          /\ metrics'.deny >= metrics.deny
          /\ metrics'.l1Hits >= metrics.l1Hits]_vars


\* ------------------------------------------------------------------------
\* SpecTtl: awaited calls for one key with the durable tier enabled; each
\* call brings its own window, whole seconds or not.
TtlWindows == {1, 1000, 1500}

ConfigsTtl ==
    [kvEnabled : {TRUE}, memoryCacheSize : {DefaultMaxSize},
     memoryCacheTTL : {DefaultTTL}, windowMs : {1000}, max : {1}]

InitTtl == InitWith(ConfigsTtl, BOOLEAN)

InvokeTtl ==
    \E windowMs \in TtlWindows :
        Invoke(1, "a", windowMs, config.max, NoMeta)

NextTtl ==
    \/ InvokeTtl
    \/ KvGetReturn(1)
    \/ KvPutReturn(1)
    \/ Return(1)
    \/ Forget(1)
    \/ ClearMemoryCache
    \/ SetShouldFail
    \/ Tick

SpecTtl == InitTtl /\ [][NextTtl]_vars

\* the calls whose kvStore.put is in flight
Putting == {i \in CallIds : calls[i].pc = "kvput"}

\* C37: every write-through put of checkRequest passes a TTL of
\* ceil((windowMs + 300000) / 1000) seconds, computed from the windowMs of
\* the current call: the least whole number of seconds that covers the
\* window of the call and the 5-minute buffer.
C37_PutTtl ==
    \A i \in Putting :
        LET ttl == calls[i].putTtl
            windowMs == calls[i].windowMs
        IN /\ ttl * 1000 >= windowMs + 300000
           /\ (ttl - 1) * 1000 < windowMs + 300000

\* a put is in flight for a call with a window of 1.5 s, over a durable
\* record written by a call with a window of 1 s: the TTL is 302 s
C37_Witness ==
    /\ calls[1].pc = "kvput"
    /\ calls[1].windowMs = 1500
    /\ calls[1].putTtl = 302
    /\ kv[generateKey("a")] # NoRecord
    /\ IF kv[generateKey("a")] = NoRecord THEN FALSE
       ELSE kv[generateKey("a")].windowMs = 1000

====
